---- MODULE Spec2Model ----
(***************************************************************************)
(* Model of smoltcp-enc28j60 (src/src/lib.rs): the smoltcp phy::Device      *)
(* adapter around an Enc28j60 driver with one shared frame buffer.          *)
(*                                                                          *)
(* The program is single threaded.  Its state is the two RefCells of        *)
(* InnerEnc28j60 (driver handle and frame buffer), the tokens handed out    *)
(* by receive()/transmit() that are still alive, and the stack of consume   *)
(* activations: a processing/filling closure runs inside consume and may    *)
(* itself consume a token it captured, so activations nest.                 *)
(*                                                                          *)
(* The Enc28j60 driver and the closures are the environment: the driver     *)
(* call fails or succeeds and writes what it likes into the slice it is     *)
(* given, a closure writes what it likes into its slice and returns any     *)
(* smoltcp::Result.                                                         *)
(***************************************************************************)
EXTENDS Integers, Sequences, FiniteSets, TLC

\* enc28j60::MAX_FRAME_LENGTH is 1518; the model scales the frame down.
MAX_FRAME_LENGTH == 6
\* enc28j60::CRC_SZ
CRC_SZ == 4
\* Largest byte value the driver or a closure writes into the buffer.
MaxByte == 1

\* lib.rs:30  const BUFFER_SIZE: usize = (MAX_FRAME_LENGTH - CRC_SZ) as usize;
BUFFER_SIZE == MAX_FRAME_LENGTH - CRC_SZ

Byte == 0..MaxByte

\* smoltcp::Result<R> as seen by the caller of consume: Ok(_) or one of the
\* smoltcp::Error values.  "Other" stands for every smoltcp::Error that this
\* crate never produces itself (Truncated, Malformed, ...).
Ok == "Ok"
Exhausted == "Exhausted"
Illegal == "Illegal"
Other == "Other"
SmolResult == {Ok, Exhausted, Illegal, Other}

\* Requested transmit lengths: everything up to one past the capacity.
TxLens == 0..(BUFFER_SIZE + 1)

VARIABLES
    deviceBorrow,   \* RefCell<Enc28j60>: 0 = not borrowed, k = RefMut held by activation k
    bufferBorrow,   \* RefCell<[u8; BUFFER_SIZE]>: likewise
    buffer,         \* contents of the frame buffer
    tokens,         \* tokens created by receive()/transmit(), not yet consumed or dropped
    stack,          \* consume activations, outermost first
    lastRet,        \* what the consume that returned last did and returned
    caps            \* what capabilities() returned last (medium "None" before the first query)

vars == <<deviceBorrow, bufferBorrow, buffer, tokens, stack, lastRet, caps>>

----------------------------------------------------------------------------
\* Pure parts of the code.

\* RefCell::try_borrow_mut().ok() is Some exactly when the cell is not borrowed.
TryBorrowMut_Always(flag) == TRUE
TryBorrowMut(flag) == flag = 0

\* InnerEnc28j60::lock: Some(SharedBuffer) iff both try_borrow_mut succeeded.
LockSome_Always(device, buf) == TRUE
LockSome(device, buf) == device /\ buf

\* Borrow flag of a cell after lock() returned to activation `who`: the
\* RefMut lives on in the SharedBuffer when lock returns Some, and is
\* dropped at the end of lock() when it returns None.
AfterLock_ReleaseOnFail(flag, got, who) ==
    IF got THEN who ELSE 0
AfterLock(flag, got, who) ==
    IF TryBorrowMut(flag) /\ got THEN who ELSE flag

\* Dropping the SharedBuffer of activation `who` drops its RefMut.
DropRefMut_Leak(flag, who) == flag
DropRefMut(flag, who) == IF flag = who THEN 0 ELSE flag

\* TxToken::consume, the guard `if len > BUFFER_SIZE`.
TooLong_OffByOne(len) == len > BUFFER_SIZE + 1
TooLong_AtCapacity(len) == len >= BUFFER_SIZE
TooLong(len) == len > BUFFER_SIZE

\* What consume returns when lock() gave None.
LockNone_Illegal == Illegal
LockNone == Exhausted

\* impl From<Error> for smoltcp::Error: every crate Error becomes Illegal.
FromError_Exhausted == Exhausted
FromError == Illegal

\* RxToken::consume: `self.lower.receive(&mut buffer)?; f(...)`.
RxResult_ErrAsIllegal(fres) == IF fres = Ok THEN Ok ELSE FromError
RxResult(fres) == fres

\* TxToken::consume: `self.lower.send(buffer)?; result`.
TxResult_FillerFirst(sendOk, fres) ==
    IF fres # Ok THEN fres ELSE IF sendOk THEN fres ELSE FromError
TxResult(sendOk, fres) == IF sendOk THEN fres ELSE FromError

\* TxToken::consume goes on to send() whatever the filling closure returned.
SendAfterFill_OnlyOk(fres) == fres = Ok
SendAfterFill(fres) == TRUE

\* The slice handed to the processing closure after the driver reported n
\* bytes: buffer.buffer.as_mut_slice(), the whole array (n was discarded by
\* `.map(|_| ())`).
RxRegion(buf, n) == SubSeq(buf, 1, Len(buf))

\* The slice handed to the filling closure for a requested length len:
\* buffer.buffer.as_mut_slice(), the whole array.
TxRegion(buf, len) == SubSeq(buf, 1, Len(buf))

\* The slice handed to Enc28j60::transmit: buffer.buffer.as_slice().
SendRegion(buf, len) == SubSeq(buf, 1, Len(buf))

\* The slice handed to Enc28j60::receive: buffer.buffer.as_mut_slice().
RecvRegion(buf) == SubSeq(buf, 1, Len(buf))

----------------------------------------------------------------------------
\* Activations.

\* A fresh activation of RxToken::consume / TxToken::consume.
NewFrame(kind, len) ==
    [kind |-> kind,         \* "rx" or "tx"
     pc |-> "start",        \* "start", "recv", "f", "send"
     len |-> len,           \* requested length (tx)
     locked |-> FALSE,      \* holds a SharedBuffer
     busy |-> FALSE,        \* another activation held a SharedBuffer at lock()
     attempted |-> FALSE,   \* lock() was called
     n |-> -1,              \* byte count reported by Enc28j60::receive
     region |-> -1,         \* length of the slice given to the closure
     sent |-> -1,           \* length of the slice given to Enc28j60::transmit
     fCalls |-> 0,          \* invocations of the closure
     rxCalls |-> 0,         \* calls of Enc28j60::receive
     txCalls |-> 0,         \* calls of Enc28j60::transmit
     drvOk |-> TRUE,        \* the driver call succeeded
     fres |-> "None",       \* what the closure returned
     res |-> "None"]        \* what consume returned

Depth == Len(stack)
Top == stack[Depth]

\* The caller (the network stack at top level, or a running closure) is in
\* control.
CallerRuns == IF Depth = 0 THEN TRUE ELSE Top.pc = "f"

\* Some activation other than the top one holds a SharedBuffer.
OtherClaim == \E i \in 1..(Depth - 1) : stack[i].locked

\* The top activation returns res: its record goes to lastRet.
Return(fr, res) ==
    /\ stack' = SubSeq(stack, 1, Depth - 1)
    /\ lastRet' = [[fr EXCEPT !.pc = "ret"] EXCEPT !.res = res]

ReplaceTop(fr) == [stack EXCEPT ![Depth] = fr]

\* Value of caps while capabilities() has not been called yet.
NoCapabilities ==
    [medium |-> "None", max_transmission_unit |-> 0, max_burst_size |-> 0]

----------------------------------------------------------------------------
Init ==
    /\ deviceBorrow = 0
    /\ bufferBorrow = 0
    /\ buffer = [i \in 1..BUFFER_SIZE |-> 0]
    /\ tokens = {}
    /\ stack = <<>>
    /\ lastRet = [NewFrame("none", 0) EXCEPT !.pc = "ret"]
    /\ caps = NoCapabilities

\* SmolEnc28j60::receive: always Some((RxToken, TxToken)).  It borrows the
\* adapter mutably, so no token of an earlier call is alive.
Receive_Locking ==
    /\ Depth = 0
    /\ tokens = {}
    /\ tokens' = {"rx", "tx"}
    /\ deviceBorrow' = 1
    /\ bufferBorrow' = 1
    /\ UNCHANGED <<buffer, stack, lastRet, caps>>
Receive ==
    /\ Depth = 0
    /\ tokens = {}
    /\ tokens' = {"rx", "tx"}
    /\ UNCHANGED <<deviceBorrow, bufferBorrow, buffer, stack, lastRet, caps>>

\* SmolEnc28j60::transmit: always Some(TxToken).
Transmit ==
    /\ Depth = 0
    /\ tokens = {}
    /\ tokens' = {"tx"}
    /\ UNCHANGED <<deviceBorrow, bufferBorrow, buffer, stack, lastRet, caps>>

\* The DeviceCapabilities that SmolEnc28j60::capabilities builds: the default
\* value with medium, max_transmission_unit and max_burst_size set.
DeviceCapabilities_FullFrame ==
    [medium |-> "Ethernet",
     max_transmission_unit |-> MAX_FRAME_LENGTH,
     max_burst_size |-> 1]
DeviceCapabilities ==
    [medium |-> "Ethernet",
     max_transmission_unit |-> BUFFER_SIZE,
     max_burst_size |-> 1]

\* SmolEnc28j60::capabilities(&self): needs the adapter unborrowed, so no
\* token is alive; it reads no field of the adapter.
Capabilities ==
    /\ Depth = 0
    /\ tokens = {}
    /\ caps' = DeviceCapabilities
    /\ UNCHANGED <<deviceBorrow, bufferBorrow, buffer, tokens, stack, lastRet>>

\* A token is dropped without being consumed.
DropToken ==
    /\ CallerRuns
    /\ \E t \in tokens : tokens' = tokens \ {t}
    /\ UNCHANGED <<deviceBorrow, bufferBorrow, buffer, stack, lastRet, caps>>

\* The caller enters RxToken::consume.
RxConsume ==
    /\ CallerRuns
    /\ "rx" \in tokens
    /\ tokens' = tokens \ {"rx"}
    /\ stack' = Append(stack, NewFrame("rx", 0))
    /\ UNCHANGED <<deviceBorrow, bufferBorrow, buffer, lastRet, caps>>

\* The caller enters TxToken::consume with a requested length.
TxConsume ==
    /\ CallerRuns
    /\ "tx" \in tokens
    /\ tokens' = tokens \ {"tx"}
    /\ \E len \in TxLens : stack' = Append(stack, NewFrame("tx", len))
    /\ UNCHANGED <<deviceBorrow, bufferBorrow, buffer, lastRet, caps>>

\* RxToken::consume up to the driver call: lock(), and Err(Exhausted) on None.
RxLock_DeviceOnly ==
    /\ Depth > 0 /\ Top.kind = "rx" /\ Top.pc = "start"
    /\ LET got == TryBorrowMut(deviceBorrow)
           fr == [Top EXCEPT !.attempted = TRUE, !.busy = OtherClaim, !.locked = got]
       IN /\ deviceBorrow' = AfterLock(deviceBorrow, got, Depth)
          /\ UNCHANGED bufferBorrow
          /\ IF got
             THEN /\ stack' = ReplaceTop([fr EXCEPT !.pc = "recv"])
                  /\ UNCHANGED lastRet
             ELSE Return(fr, LockNone)
    /\ UNCHANGED <<buffer, tokens, caps>>
RxLock ==
    /\ Depth > 0 /\ Top.kind = "rx" /\ Top.pc = "start"
    /\ LET got == LockSome(TryBorrowMut(deviceBorrow), TryBorrowMut(bufferBorrow))
           fr == [Top EXCEPT !.attempted = TRUE, !.busy = OtherClaim, !.locked = got]
       IN /\ deviceBorrow' = AfterLock(deviceBorrow, got, Depth)
          /\ bufferBorrow' = AfterLock(bufferBorrow, got, Depth)
          /\ IF got
             THEN /\ stack' = ReplaceTop([fr EXCEPT !.pc = "recv"])
                  /\ UNCHANGED lastRet
             ELSE Return(fr, LockNone)
    /\ UNCHANGED <<buffer, tokens, caps>>

\* TxToken::consume up to the filling closure: the length guard, lock(),
\* Err(Exhausted) on None, and the call of f on the buffer's slice.
TxLock_Wait ==
    /\ Depth > 0 /\ Top.kind = "tx" /\ Top.pc = "start"
    /\ IF TooLong(Top.len)
       THEN /\ Return(Top, Exhausted)
            /\ UNCHANGED <<deviceBorrow, bufferBorrow>>
       ELSE LET fr == [Top EXCEPT !.attempted = TRUE, !.busy = OtherClaim, !.locked = TRUE]
            IN /\ LockSome(TryBorrowMut(deviceBorrow), TryBorrowMut(bufferBorrow))
               /\ deviceBorrow' = Depth
               /\ bufferBorrow' = Depth
               /\ stack' = ReplaceTop([fr EXCEPT !.pc = "f", !.fCalls = @ + 1,
                                          !.region = Len(TxRegion(buffer, fr.len))])
               /\ UNCHANGED lastRet
    /\ UNCHANGED <<buffer, tokens, caps>>
TxLock ==
    /\ Depth > 0 /\ Top.kind = "tx" /\ Top.pc = "start"
    /\ IF TooLong(Top.len)
       THEN /\ Return(Top, Exhausted)
            /\ UNCHANGED <<deviceBorrow, bufferBorrow>>
       ELSE LET got == LockSome(TryBorrowMut(deviceBorrow), TryBorrowMut(bufferBorrow))
                fr == [Top EXCEPT !.attempted = TRUE, !.busy = OtherClaim, !.locked = got]
            IN /\ deviceBorrow' = AfterLock(deviceBorrow, got, Depth)
               /\ bufferBorrow' = AfterLock(bufferBorrow, got, Depth)
               /\ IF got
                  THEN /\ stack' = ReplaceTop([fr EXCEPT !.pc = "f", !.fCalls = @ + 1,
                                                  !.region = Len(TxRegion(buffer, fr.len))])
                       /\ UNCHANGED lastRet
                  ELSE Return(fr, LockNone)
    /\ UNCHANGED <<buffer, tokens, caps>>

\* The buffer after a writer stored data in the first Len(data) bytes.
Written(buf, data) ==
    [i \in 1..Len(buf) |-> IF i <= Len(data) THEN data[i] ELSE buf[i]]

\* InnerEnc28j60::receive and the rest of RxToken::consume up to the
\* processing closure: Enc28j60::receive writes into the slice and reports
\* a byte count or fails; a failure becomes Err(Illegal) and the SharedBuffer
\* is dropped, a success calls f on the buffer's slice.
RxReceive ==
    /\ Depth > 0 /\ Top.kind = "rx" /\ Top.pc = "recv"
    /\ \E ok \in BOOLEAN, n \in 0..Len(RecvRegion(buffer)) :
         \E data \in [1..n -> Byte] :
            LET fr == [Top EXCEPT !.rxCalls = @ + 1, !.drvOk = ok]
            IN /\ buffer' = Written(buffer, data)
               /\ IF ok
                  THEN /\ stack' = ReplaceTop([fr EXCEPT !.pc = "f", !.n = n,
                                                  !.fCalls = @ + 1,
                                                  !.region = Len(RxRegion(buffer', n))])
                       /\ UNCHANGED <<deviceBorrow, bufferBorrow, lastRet>>
                  ELSE /\ deviceBorrow' = DropRefMut(deviceBorrow, Depth)
                       /\ bufferBorrow' = DropRefMut(bufferBorrow, Depth)
                       /\ Return(fr, FromError)
    /\ UNCHANGED <<tokens, caps>>

\* The running closure stores a byte in the slice it was given.
CbWrite ==
    /\ Depth > 0 /\ Top.pc = "f"
    /\ \E i \in 1..Top.region, b \in Byte :
         /\ buffer[i] # b
         /\ buffer' = [buffer EXCEPT ![i] = b]
    /\ UNCHANGED <<deviceBorrow, bufferBorrow, tokens, stack, lastRet, caps>>

\* The processing closure returns: RxToken::consume returns its result and
\* the SharedBuffer goes out of scope.
RxCbReturn ==
    /\ Depth > 0 /\ Top.kind = "rx" /\ Top.pc = "f"
    /\ \E fres \in SmolResult :
         /\ deviceBorrow' = DropRefMut(deviceBorrow, Depth)
         /\ bufferBorrow' = DropRefMut(bufferBorrow, Depth)
         /\ Return([Top EXCEPT !.fres = fres], RxResult(fres))
    /\ UNCHANGED <<buffer, tokens, caps>>

\* The filling closure returns: TxToken::consume keeps its result and goes
\* on to send().
TxCbReturn_ReleaseEarly ==
    /\ Depth > 0 /\ Top.kind = "tx" /\ Top.pc = "f"
    /\ \E fres \in SmolResult :
         /\ stack' = ReplaceTop([Top EXCEPT !.fres = fres, !.pc = "send"])
         /\ deviceBorrow' = DropRefMut(deviceBorrow, Depth)
         /\ bufferBorrow' = DropRefMut(bufferBorrow, Depth)
         /\ UNCHANGED lastRet
    /\ UNCHANGED <<buffer, tokens, caps>>
TxCbReturn ==
    /\ Depth > 0 /\ Top.kind = "tx" /\ Top.pc = "f"
    /\ \E fres \in SmolResult :
         LET fr == [Top EXCEPT !.fres = fres]
         IN IF SendAfterFill(fres)
            THEN /\ stack' = ReplaceTop([fr EXCEPT !.pc = "send"])
                 /\ UNCHANGED <<deviceBorrow, bufferBorrow, lastRet>>
            ELSE /\ deviceBorrow' = DropRefMut(deviceBorrow, Depth)
                 /\ bufferBorrow' = DropRefMut(bufferBorrow, Depth)
                 /\ Return(fr, fres)
    /\ UNCHANGED <<buffer, tokens, caps>>

\* InnerEnc28j60::send and the end of TxToken::consume: Enc28j60::transmit
\* is given the buffer's slice and succeeds or fails; send() owns the
\* SharedBuffer and drops it; a failure becomes Err(Illegal), otherwise the
\* closure's result is returned.
TxSend ==
    /\ Depth > 0 /\ Top.kind = "tx" /\ Top.pc = "send"
    /\ \E ok \in BOOLEAN :
         LET fr == [Top EXCEPT !.txCalls = @ + 1, !.drvOk = ok,
                               !.sent = Len(SendRegion(buffer, Top.len))]
         IN /\ deviceBorrow' = DropRefMut(deviceBorrow, Depth)
            /\ bufferBorrow' = DropRefMut(bufferBorrow, Depth)
            /\ Return(fr, TxResult(ok, fr.fres))
    /\ UNCHANGED <<buffer, tokens, caps>>

Next ==
    \/ Receive \/ Transmit \/ Capabilities \/ DropToken
    \/ RxConsume \/ TxConsume
    \/ RxLock \/ RxReceive \/ RxCbReturn
    \/ TxLock \/ TxCbReturn \/ TxSend
    \/ CbWrite

Spec == Init /\ [][Next]_vars

\* Every step of the crate's own code is taken (it is straight-line code),
\* every driver call returns and every closure returns.
Fairness ==
    /\ WF_vars(RxLock) /\ WF_vars(TxLock)
    /\ WF_vars(RxReceive) /\ WF_vars(TxSend)
    /\ WF_vars(RxCbReturn) /\ WF_vars(TxCbReturn)

FairSpec == Spec /\ Fairness

----------------------------------------------------------------------------
\* Properties.

\* The activations that hold a SharedBuffer (an Exclusive Claim).
Claims == {i \in 1..Depth : stack[i].locked}

\* lastRet describes a consume that has returned.
Returned == lastRet.kind # "none"

\* C1: at most one Exclusive Claim on {Controller Handle, Frame Buffer} is
\* active in every reachable state, nested consumes included.
C1_MutualExclusion == Cardinality(Claims) <= 1

\* C1 witness: a consume nested in the closure of a claim holder was made
\* and has returned while the outer claim is still held.
C1_Witness ==
    /\ Returned /\ lastRet.attempted /\ lastRet.busy
    /\ Depth = 1 /\ stack[1].locked /\ stack[1].pc = "f"

C3_ReleaseOnExit ==
    /\ \A flag \in {deviceBorrow, bufferBorrow} :
         flag # 0 => flag <= Depth /\ stack[flag].locked
    /\ \A i \in 1..Depth :
         (stack[i].attempted /\ ~stack[i].busy) => stack[i].locked
    /\ (Returned /\ lastRet.attempted /\ ~lastRet.busy) => lastRet.locked

\* C3 witness: a consume that held the claim returned Illegal after a
\* driver failure, and the consume made after it holds the claim.
C3_Witness ==
    /\ Returned /\ lastRet.locked /\ ~lastRet.drvOk /\ lastRet.res = Illegal
    /\ Depth = 1 /\ stack[1].locked /\ deviceBorrow = 1 /\ bufferBorrow = 1

\* C4: a transmit consume whose length exceeds the capacity returns
\* Exhausted without calling lock(), the closure or the driver, and leaves
\* both cells and the buffer as they were, whether or not a claim is active.
C4_CapacityPrecondition ==
    [][(Depth > 0 /\ Top.kind = "tx" /\ Top.pc = "start" /\ Top.len > BUFFER_SIZE) =>
         /\ stack' = SubSeq(stack, 1, Depth - 1)
         /\ lastRet'.res = Exhausted
         /\ ~lastRet'.attempted /\ ~lastRet'.locked
         /\ lastRet'.fCalls = 0 /\ lastRet'.rxCalls = 0 /\ lastRet'.txCalls = 0
         /\ UNCHANGED <<deviceBorrow, bufferBorrow, buffer>>]_vars

\* C4 witness: an oversized transmit consume returned Exhausted while the
\* claim was held by the enclosing consume.
C4_Witness ==
    /\ Returned /\ lastRet.kind = "tx" /\ lastRet.len > BUFFER_SIZE
    /\ lastRet.res = Exhausted /\ ~lastRet.attempted
    /\ Depth = 1 /\ stack[1].locked /\ deviceBorrow = 1 /\ bufferBorrow = 1

\* C5 (as claimed): when the driver's receive reported N bytes, the
\* processing closure is given a region of exactly N bytes.
C5_RxRegionIsFilledBytes ==
    \A i \in 1..Depth :
        (stack[i].kind = "rx" /\ stack[i].pc = "f") => stack[i].region = stack[i].n

\* C6: when a receive consume held the claim and the driver's receive
\* succeeded, consume returns exactly what the processing closure returned.
C6_RxResultVerbatim ==
    (Returned /\ lastRet.kind = "rx" /\ lastRet.locked /\ lastRet.drvOk) =>
        /\ lastRet.fCalls = 1
        /\ lastRet.fres \in SmolResult
        /\ lastRet.res = lastRet.fres

\* C6 witness: a processing closure returned an error of its own and
\* consume returned that very error.
C6_Witness ==
    /\ Returned /\ lastRet.kind = "rx" /\ lastRet.locked /\ lastRet.drvOk
    /\ lastRet.fres = Other /\ lastRet.res = Other

\* C7: a transmit consume that obtained the claim calls the driver's
\* transmit exactly once before the claim is released, whatever the filling
\* closure returned: no call has been made while the claim is still held,
\* and exactly one has been made once it has returned.
C7_TxAlwaysFlushes ==
    /\ \A i \in 1..Depth :
         (stack[i].kind = "tx" /\ stack[i].locked) => stack[i].txCalls = 0
    /\ (Returned /\ lastRet.kind = "tx" /\ lastRet.locked) =>
         /\ lastRet.txCalls = 1
         /\ lastRet.fres \in SmolResult

\* C7 witness: the filling closure returned an error and transmit was
\* called once all the same.
C7_Witness ==
    /\ Returned /\ lastRet.kind = "tx" /\ lastRet.locked
    /\ lastRet.fres = Other /\ lastRet.txCalls = 1

\* C8: in a transmit consume that obtained the claim, a failed driver
\* transmit makes the result Illegal whatever the filling closure returned,
\* and a successful one makes it the closure's result.
C8_TxErrorPriority ==
    (Returned /\ lastRet.kind = "tx" /\ lastRet.locked) =>
        lastRet.res = (IF lastRet.drvOk THEN lastRet.fres ELSE Illegal)

\* C8 witness: closure and driver both failed and the result is Illegal.
C8_Witness ==
    /\ Returned /\ lastRet.kind = "tx" /\ lastRet.locked
    /\ ~lastRet.drvOk /\ lastRet.fres = Other /\ lastRet.res = Illegal

\* C9 (as claimed, from the crate documentation): an operation attempted
\* while another is in progress returns smoltcp::Error::Illegal.
C9_BusyIsIllegal ==
    (Returned /\ lastRet.attempted /\ lastRet.busy) => lastRet.res = Illegal

\* C10 (as claimed): a transmit consume of length L that obtained the claim
\* gives the filling closure a region of exactly L bytes and hands exactly
\* L bytes to the driver's transmit.
C10_TxExactLength ==
    /\ \A i \in 1..Depth :
         (stack[i].kind = "tx" /\ stack[i].pc \in {"f", "send"}) =>
             stack[i].region = stack[i].len
    /\ (Returned /\ lastRet.kind = "tx" /\ lastRet.txCalls = 1) =>
         lastRet.sent = lastRet.len

\* The adapter is not borrowed: no token is alive and no consume is running,
\* so receive(), transmit() and capabilities() may be called.
AdapterFree == Depth = 0 /\ tokens = {}

\* C11: receive() always yields the (RxToken, TxToken) pair and transmit() a
\* TxToken whenever they may be called; a step that creates tokens or drops
\* an unconsumed token calls no driver and leaves both cells, the buffer and
\* every activation as they were.
C11_TokenCreation ==
    /\ [](AdapterFree => (ENABLED Receive /\ ENABLED Transmit))
    /\ [][(stack' = stack /\ tokens' # tokens) =>
            /\ tokens = {} => tokens' \in {{"rx", "tx"}, {"tx"}}
            /\ tokens # {} => (tokens' \subseteq tokens /\ Cardinality(tokens') = Cardinality(tokens) - 1)
            /\ UNCHANGED <<deviceBorrow, bufferBorrow, buffer, lastRet>>]_vars

\* C11 witness: inside the processing closure of a receive consume that
\* holds the claim, the paired TxToken was dropped without being consumed
\* (no consume has ever returned), and the claim is still with the receive.
C11_Witness ==
    /\ Depth = 1 /\ stack[1].kind = "rx" /\ stack[1].pc = "f"
    /\ tokens = {} /\ ~Returned
    /\ deviceBorrow = 1 /\ bufferBorrow = 1

\* capabilities() has been called.
Queried == caps # NoCapabilities

\* C12: every capabilities() result is medium Ethernet, maximum transmission
\* unit MAX_FRAME_LENGTH - CRC_SZ and burst size 1, whatever happened
\* before; a query changes nothing else, and once a result was returned
\* every later query returns the same.
C12_Capabilities ==
    /\ [](Queried =>
            /\ caps.medium = "Ethernet"
            /\ caps.max_transmission_unit = MAX_FRAME_LENGTH - CRC_SZ
            /\ caps.max_transmission_unit = Len(buffer)
            /\ caps.max_burst_size = 1)
    /\ [][Queried => caps' = caps]_vars
    /\ [][caps' # caps =>
            UNCHANGED <<deviceBorrow, bufferBorrow, buffer, tokens, stack, lastRet>>]_vars

\* C12 witness: capabilities() has answered, consumes have run and the
\* buffer holds bytes of an earlier frame.
C12_Witness ==
    /\ Queried /\ AdapterFree
    /\ Returned /\ lastRet.locked
    /\ \E i \in 1..Len(buffer) : buffer[i] # 0

\* C13: when a receive consume holds the claim and the driver's receive
\* fails, consume returns Illegal in that very step without having invoked
\* the processing closure, and both cells are released; when the driver
\* succeeds the consume goes on to the closure.
C13_RxHardwareFailure ==
    [][(Depth > 0 /\ Top.kind = "rx" /\ Top.pc = "recv" /\ stack' # stack) =>
         IF Len(stack') = Depth
         THEN stack'[Depth].drvOk /\ stack'[Depth].pc = "f"
         ELSE /\ stack' = SubSeq(stack, 1, Depth - 1)
              /\ ~lastRet'.drvOk /\ lastRet'.rxCalls = 1
              /\ lastRet'.res = Illegal
              /\ lastRet'.fCalls = 0 /\ lastRet'.fres = "None"
              /\ deviceBorrow = Depth /\ bufferBorrow = Depth
              /\ deviceBorrow' = 0 /\ bufferBorrow' = 0]_vars

\* C13 witness: a receive consume came back Illegal after a driver failure,
\* its closure never ran, and the adapter is idle.
C13_Witness ==
    /\ Returned /\ lastRet.kind = "rx" /\ lastRet.locked /\ ~lastRet.drvOk
    /\ lastRet.res = Illegal /\ lastRet.fCalls = 0
    /\ Depth = 0 /\ deviceBorrow = 0 /\ bufferBorrow = 0

\* C14: lock() yields both cells or nothing: the two cells are always
\* borrowed together and by the same activation, which holds a
\* SharedBuffer; a lock() that returns None leaves both borrow flags as
\* they were, and one that returns Some gives both cells to the caller.
C14_AllOrNothing ==
    /\ [](/\ deviceBorrow = bufferBorrow
          /\ deviceBorrow # 0 => deviceBorrow \in Claims)
    /\ [][(Depth > 0 /\ Top.pc = "start" /\ stack' # stack) =>
            IF Len(stack') = Depth
            THEN /\ stack'[Depth].locked
                 /\ deviceBorrow' = Depth /\ bufferBorrow' = Depth
            ELSE /\ ~lastRet'.locked
                 /\ UNCHANGED <<deviceBorrow, bufferBorrow>>]_vars

\* C14 witness: a receive consume nested in a filling closure was refused:
\* it holds nothing and both cells are still with the transmit consume.
C14_Witness ==
    /\ Returned /\ lastRet.kind = "rx" /\ lastRet.attempted /\ ~lastRet.locked
    /\ Depth = 1 /\ stack[1].kind = "tx" /\ stack[1].locked
    /\ deviceBorrow = 1 /\ bufferBorrow = 1

\* Activation i holds both cells.
Holds(i) == stack[i].locked /\ deviceBorrow = i /\ bufferBorrow = i

\* Activation record fr has called the driver or its closure.
Acted(fr) == fr.fCalls > 0 \/ fr.rxCalls > 0 \/ fr.txCalls > 0

\* C15: an activation that is about to call the driver, is running its
\* closure, or has done either, holds the claim itself; a consume that
\* returned after calling the driver or its closure had the claim; at most
\* one activation is at a driver call; the cells are either both free with
\* no claim, or both held by the one receive or transmit that has the claim.
C15_NoBypass ==
    /\ \A i \in 1..Depth :
         (stack[i].pc \in {"recv", "f", "send"} \/ Acted(stack[i])) => Holds(i)
    /\ (Returned /\ Acted(lastRet)) => lastRet.locked
    /\ Cardinality({i \in 1..Depth : stack[i].pc \in {"recv", "send"}}) <= 1
    /\ \/ deviceBorrow = 0 /\ bufferBorrow = 0 /\ Claims = {}
       \/ \E i \in 1..Depth :
            Claims = {i} /\ Holds(i) /\ stack[i].kind \in {"rx", "tx"}

\* C15 witness: a transmit consume is at the driver's transmit, holding
\* both cells, after its closure ran.
C15_Witness ==
    /\ Depth = 1 /\ stack[1].kind = "tx" /\ stack[1].pc = "send"
    /\ stack[1].fCalls = 1 /\ Holds(1)

\* The steps of one consume, in order: <<kind, pc before, pc after>>, "ret"
\* standing for the return.
ConsumeOrder ==
    {<<"rx", "start", "recv">>, <<"rx", "recv", "f">>, <<"rx", "f", "ret">>,
     <<"rx", "start", "ret">>, <<"rx", "recv", "ret">>,
     <<"tx", "start", "f">>, <<"tx", "f", "send">>, <<"tx", "send", "ret">>,
     <<"tx", "start", "ret">>}

\* C16: no claim exists while only tokens exist; a consume takes the claim
\* in its first step; a receive then calls the driver's receive, then the
\* closure, then releases; a transmit calls the closure, then the driver's
\* transmit, then releases; the claim is held by that consume in every
\* state between taking it and returning.
C16_StepOrder ==
    /\ [](/\ Depth = 0 => (deviceBorrow = 0 /\ bufferBorrow = 0)
          /\ \A i \in 1..Depth :
               LET fr == stack[i] IN
               /\ fr.pc = "start" => (~fr.locked /\ ~fr.attempted /\ ~Acted(fr))
               /\ fr.pc = "recv" => (fr.kind = "rx" /\ Holds(i) /\ ~Acted(fr))
               /\ (fr.pc = "f" /\ fr.kind = "rx") =>
                     (Holds(i) /\ fr.rxCalls = 1 /\ fr.drvOk /\ fr.fCalls = 1)
               /\ (fr.pc = "f" /\ fr.kind = "tx") =>
                     (Holds(i) /\ fr.fCalls = 1 /\ fr.txCalls = 0)
               /\ fr.pc = "send" =>
                     (fr.kind = "tx" /\ Holds(i) /\ fr.fCalls = 1
                      /\ fr.fres \in SmolResult /\ fr.txCalls = 0))
    /\ [][\A i \in 1..Depth :
            IF i <= Len(stack')
            THEN \/ stack'[i].pc = stack[i].pc
                 \/ <<stack[i].kind, stack[i].pc, stack'[i].pc>> \in ConsumeOrder
            ELSE /\ <<stack[i].kind, stack[i].pc, "ret">> \in ConsumeOrder
                 /\ deviceBorrow' # i /\ bufferBorrow' # i
                 /\ Holds(i) => (deviceBorrow' = 0 /\ bufferBorrow' = 0)]_vars

\* C16 witness: a transmit consume that took the claim, ran its closure and
\* then the driver's transmit has returned, and the cells are free again.
C16_Witness ==
    /\ Returned /\ lastRet.kind = "tx" /\ lastRet.locked
    /\ lastRet.fCalls = 1 /\ lastRet.txCalls = 1
    /\ Depth = 0 /\ tokens = {} /\ deviceBorrow = 0 /\ bufferBorrow = 0

\* Both cells are free and no consume is running.
Idle == deviceBorrow = 0 /\ bufferBorrow = 0 /\ Depth = 0

\* C17: a consume whose lock() finds the guard busy returns in that very
\* step, without waiting; provided closures and driver calls return, every
\* consume, nested ones included, terminates, and every state with a
\* borrowed cell is followed by the idle state.
C17_NonBlocking ==
    /\ [][(Depth > 0 /\ Top.pc = "start" /\ stack' # stack
           /\ (deviceBorrow # 0 \/ bufferBorrow # 0)) =>
            /\ stack' = SubSeq(stack, 1, Depth - 1)
            /\ ~lastRet'.locked]_vars
    /\ (Depth = 2) ~> (Depth = 1)
    /\ (Depth > 0) ~> (Depth = 0)
    /\ (deviceBorrow # 0 \/ bufferBorrow # 0) ~> Idle

\* C17 witness: the adapter is idle again after a receive consume held
\* the claim through its closure and returned.
C17_Witness ==
    /\ Idle /\ Returned /\ lastRet.kind = "rx" /\ lastRet.locked
    /\ lastRet.fCalls = 1 /\ lastRet.fres \in SmolResult

\* A consume nested in the closure of the k consume that holds the claim
\* has just come back Exhausted from the guard.
RejectedIn(k) ==
    /\ Depth = 1 /\ stack[1].kind = k /\ stack[1].pc = "f" /\ Holds(1)
    /\ Returned /\ lastRet.attempted /\ lastRet.busy /\ lastRet.res = Exhausted

\* C18: the step in which a nested consume is refused by the guard leaves
\* the outer activation, both borrow flags and the buffer exactly as they
\* were and returns Exhausted; the outer consume then completes: an outer
\* transmit calls the driver's transmit once, an outer receive returns its
\* closure's result, and either way the claim is released.
C18_NestedReject ==
    /\ [][(Depth > 1 /\ Top.pc = "start" /\ OtherClaim /\ stack' # stack) =>
            /\ stack' = SubSeq(stack, 1, Depth - 1)
            /\ lastRet'.res = Exhausted /\ ~lastRet'.locked /\ ~Acted(lastRet')
            /\ UNCHANGED <<deviceBorrow, bufferBorrow, buffer>>]_vars
    /\ RejectedIn("tx") ~>
         (Idle /\ lastRet.kind = "tx" /\ lastRet.locked /\ lastRet.txCalls = 1)
    /\ RejectedIn("rx") ~>
         (Idle /\ lastRet.kind = "rx" /\ lastRet.locked /\ lastRet.res = lastRet.fres)

\* C18 witness: a receive consume nested in a filling closure was refused
\* after the closure had written into the buffer, and the transmit consume
\* still holds the claim.
C18_Witness ==
    /\ RejectedIn("tx") /\ lastRet.kind = "rx"
    /\ \E i \in 1..Len(buffer) : buffer[i] # 0

\* C19: a consume whose lock() is made while no claim is active obtains the
\* claim, a transmit of exactly the capacity included; a consume that
\* returned Exhausted without its closure having returned anything either
\* found a claim active or was a transmit longer than the capacity.
C19_ExhaustedOnlyUnavailable ==
    /\ \A i \in 1..Depth :
         (stack[i].pc # "start" /\ ~stack[i].busy) =>
             (stack[i].locked /\ stack[i].len <= BUFFER_SIZE)
    /\ (Returned /\ ~lastRet.busy /\ lastRet.len <= BUFFER_SIZE) =>
         (lastRet.attempted /\ lastRet.locked)
    /\ (Returned /\ lastRet.res = Exhausted /\ lastRet.fres = "None") =>
         \/ lastRet.attempted /\ lastRet.busy
         \/ lastRet.kind = "tx" /\ lastRet.len > BUFFER_SIZE

\* C19 witness: a transmit consume of exactly the capacity, made with no
\* claim active, obtained the claim and returned its closure's Ok.
C19_Witness ==
    /\ Returned /\ lastRet.kind = "tx" /\ lastRet.len = BUFFER_SIZE
    /\ ~lastRet.busy /\ lastRet.locked /\ lastRet.res = Ok
====
